---------------------------- MODULE Spec2Model ----------------------------
(* A state-machine model of NeuralNetworkLateralControl                    *)
(* (sunnypilot/selfdrive/controls/lib/nnlc/nnlc.py).                        *)
(*                                                                          *)
(* Python floats are modelled as exact rationals <<n, d>> (d > 0, lowest   *)
(* terms), so equality of two values is equality of the tuples.  The only  *)
(* quantised quantity is the pitch low-pass filter, see FirstOrderFilter.  *)
EXTENDS Integers, Sequences, FiniteSets

(***************************************************************************)
(* Rational arithmetic (Python float arithmetic of nnlc.py)                *)
(***************************************************************************)
IAbs(n) == IF n < 0 THEN -n ELSE n

RECURSIVE GCD(_, _)
GCD(a, b) == IF b = 0 THEN a ELSE GCD(b, a % b)

Norm(n, d) ==
  LET g == GCD(IAbs(n), IAbs(d))
      s == IF d < 0 THEN -1 ELSE 1
  IN  << (s * n) \div g, (s * d) \div g >>

R(n) == << n, 1 >>
Zero == R(0)
One == R(1)

RAdd(x, y) == Norm(x[1] * y[2] + y[1] * x[2], x[2] * y[2])
RNeg(x) == << -x[1], x[2] >>
RSub(x, y) == RAdd(x, RNeg(y))
RMul(x, y) == Norm(x[1] * y[1], x[2] * y[2])
RDiv(x, y) == Norm(x[1] * y[2], x[2] * y[1])
RLt(x, y) == x[1] * y[2] < y[1] * x[2]
RLe(x, y) == x[1] * y[2] <= y[1] * x[2]
RAbs(x) == << IAbs(x[1]), x[2] >>
RMax(x, y) == IF RLt(x, y) THEN y ELSE x

RECURSIVE RSum(_)
RSum(s) == IF s = << >> THEN Zero ELSE RAdd(Head(s), RSum(Tail(s)))

(***************************************************************************)
(* Module constants                                                        *)
(***************************************************************************)
\* LAT_PLAN_MIN_IDX = 5
LAT_PLAN_MIN_IDX == 5

\* from openpilot.selfdrive.controls.lib.drive_helpers import CONTROL_N
CONTROL_N == 17

\* ModelConstants.IDX_N: the number of horizon time offsets in T_IDXS
IDX_N == 33

\* ModelConstants.T_IDXS = [10.0 * (idx / 32)**2 for idx in range(33)], seconds:
\* entry idx + 1 is 10 * idx^2 / 1024 in lowest terms
T_IDXS ==
  <<
     <<0, 1>>, <<5, 512>>, <<5, 128>>, <<45, 512>>, <<5, 32>>, <<125, 512>>,
     <<45, 128>>, <<245, 512>>, <<5, 8>>, <<405, 512>>, <<125, 128>>, <<605, 512>>,
     <<45, 32>>, <<845, 512>>, <<245, 128>>, <<1125, 512>>, <<5, 2>>, <<1445, 512>>,
     <<405, 128>>, <<1805, 512>>, <<125, 32>>, <<2205, 512>>, <<605, 128>>, <<2645, 512>>,
     <<45, 8>>, <<3125, 512>>, <<845, 128>>, <<3645, 512>>, <<245, 32>>, <<4205, 512>>,
     <<1125, 128>>, <<4805, 512>>, <<10, 1>> >>

\* the default of next(..., 16) in update_lateral_jerk
FRICTION_UPPER_IDX_DEFAULT == 16

\* CP.steerActuatorDelay, seconds (a car parameter; 0.1 s here)
STEER_ACTUATOR_DELAY == << 1, 10 >>

(***************************************************************************)
(* numpy helpers, as nnlc.py uses them.  A sequence index i of the source  *)
(* (0-based) is index i + 1 here.                                          *)
(***************************************************************************)
\* np.diff(a): a[i+1] - a[i]
NpDiff(a) == [i \in 1..(IF Len(a) = 0 THEN 0 ELSE Len(a) - 1) |-> RSub(a[i + 1], a[i])]

\* np.interp raises ValueError unless xp and fp have the same, non-zero length
InterpRaises(xp, fp) == Len(xp) # Len(fp) \/ Len(xp) = 0

\* np.interp(x, xp, fp) for increasing xp: clamped at both ends, linear between
NpInterp(x, xp, fp) ==
  IF RLe(x, xp[1]) THEN fp[1]
  ELSE IF RLe(xp[Len(xp)], x) THEN fp[Len(fp)]
  ELSE LET i == CHOOSE j \in 1..(Len(xp) - 1) : RLe(xp[j], x) /\ RLt(x, xp[j + 1])
       IN  RAdd(fp[i], RMul(RSub(fp[i + 1], fp[i]),
                            RDiv(RSub(x, xp[i]), RSub(xp[i + 1], xp[i]))))

(***************************************************************************)
(* Scalar helpers of nnlc.py                                               *)
(***************************************************************************)
\* elementwise division of arrays of lengths n and m broadcasts a length-1
\* operand and raises ValueError on any other length mismatch
BroadcastRaises(n, m) == n # m /\ n # 1 /\ m # 1

\* len(np.diff(a))
NpDiffLen(a) == IF Len(a) = 0 THEN 0 ELSE Len(a) - 1

get_predicted_lateral_jerk(lat_accels, time_diffs) ==
  LET lat_accel_diffs == NpDiff(lat_accels)
      n == NpDiffLen(lat_accels)
  IN  IF n = Len(time_diffs) THEN [i \in 1..n |-> RDiv(lat_accel_diffs[i], time_diffs[i])]
      ELSE IF n = 1 THEN [i \in 1..Len(time_diffs) |-> RDiv(lat_accel_diffs[1], time_diffs[i])]
      ELSE [i \in 1..n |-> RDiv(lat_accel_diffs[i], time_diffs[1])]

sign(x) == IF x[1] > 0 THEN One ELSE (IF x[1] < 0 THEN RNeg(One) ELSE Zero)

\* [v for v in s if keep(v)]
RECURSIVE SameSign(_, _)
SameSign(s, c) ==
  IF s = << >> THEN << >>
  ELSE IF sign(Head(s)) = sign(c) THEN << Head(s) >> \o SameSign(Tail(s), c)
  ELSE SameSign(Tail(s), c)

\* the first element, whatever its absolute value
FirstVal(s) == s[1]

\* min(s, key=abs): the first element of least absolute value
RECURSIVE MinAbs(_)
MinAbs(s) ==
  IF Len(s) = 1 THEN s[1]
  ELSE LET m == MinAbs(Tail(s))
       IN  IF RLe(RAbs(Head(s)), RAbs(m)) THEN Head(s) ELSE m

get_lookahead_value(future_vals, current_val) ==
  IF Len(future_vals) = 0 THEN current_val
  ELSE LET same_sign_vals == SameSign(future_vals, current_val)
       IN  IF Len(same_sign_vals) < Len(future_vals) THEN Zero
           ELSE MinAbs(same_sign_vals \o << current_val >>)

\* roll * math.cos(pitch).  Pitch angles are held in half turns, on which
\* the cosine is exact: cos(n * pi) = (-1)^n and cos((n + 1/2) * pi) = 0.
Cos(p) ==
  CASE p[2] = 1 -> IF p[1] % 2 = 0 THEN One ELSE RNeg(One)
    [] p[2] = 2 -> Zero

roll_pitch_adjust(roll, pitch) == RMul(roll, Cos(pitch))

(***************************************************************************)
(* External collaborators (spec section 6)                                 *)
(***************************************************************************)
\* FirstOrderFilter(0.0, 0.5, 0.01): alpha = dt / (rc + dt) = 1/51 and
\* update(u) sets x = (1 - alpha) * x + alpha * u.  The result is rounded
\* down to the grid of whole pitch units, which keeps the filter finite.
FILTER_ALPHA == << 1, 51 >>

FirstOrderFilterUpdate(x, u) ==
  LET y == RAdd(RMul(RSub(One, FILTER_ALPHA), x), RMul(FILTER_ALPHA, u))
  IN  R(y[1] \div y[2])

\* math.radians, with pi taken as 22/7
Radians(deg) == RMul(deg, Norm(22, 7 * 180))

\* VM.calc_curvature(sa, u, roll): the kinematic model's curvature for a
\* steering angle, here without slip: sa / (steer ratio * wheelbase)
CalcCurvature(sa, u, roll) == RDiv(sa, R(40))

\* CI.get_ff_nn: the opaque torque response, here a linear surrogate that
\* weighs every feature by its position
TorqueFromNN(v) == RSum([i \in 1..Len(v) |-> RMul(R(i), v[i])])

\* lac_torque.torque_from_lateral_accel(LatControlInputs(0, 0, vEgo, aEgo),
\* torque_params, friction_input, deadzone, friction_compensation=True,
\* gravity_adjusted=False): the friction term past the deadzone, clipped
TorqueFromLateralAccel(vEgo, aEgo, friction_input, deadzone) ==
  LET e == IF RLt(deadzone, friction_input) THEN RSub(friction_input, deadzone)
           ELSE IF RLt(friction_input, RNeg(deadzone)) THEN RAdd(friction_input, deadzone)
           ELSE Zero
  IN  IF RLt(One, e) THEN One ELSE IF RLt(e, RNeg(One)) THEN RNeg(One) ELSE e

(***************************************************************************)
(* NeuralNetworkLateralControl.__init__                                    *)
(***************************************************************************)
\* self.use_lateral_jerk: bool = False
use_lateral_jerk == FALSE

friction_look_ahead_v == << Norm(14, 10), R(2) >>
friction_look_ahead_bp == << R(9), R(30) >>

lat_jerk_friction_factor == << 2, 5 >>
\* the value __init__ gives self.lat_accel_friction_factor
LAT_ACCEL_FRICTION_FACTOR_INIT == << 7, 10 >>
\* the value update_lateral_jerk forces
\* line 166 left out: the factor keeps its constructed value
LAT_ACCEL_FRICTION_FACTOR_KEPT == LAT_ACCEL_FRICTION_FACTOR_INIT

LAT_ACCEL_FRICTION_FACTOR_OFF == One

t_diffs == NpDiff(T_IDXS)
desired_lat_jerk_time == RAdd(STEER_ACTUATOR_DELAY, Norm(3, 10))

nn_time_offset == RAdd(STEER_ACTUATOR_DELAY, Norm(2, 10))
future_times == << Norm(3, 10), Norm(6, 10), R(1), Norm(15, 10) >>
nn_future_times == [i \in 1..Len(future_times) |-> RAdd(future_times[i], nn_time_offset)]

\* self.past_times = [-0.3, -0.2, -0.1]
past_times == << Norm(-3, 10), Norm(-2, 10), Norm(-1, 10) >>
\* int(abs(i) * 100)
history_check_frames ==
  [i \in 1..Len(past_times) |->
     LET f == RMul(RAbs(past_times[i]), R(100)) IN f[1] \div f[2]]
history_frame_offsets ==
  [i \in 1..Len(history_check_frames) |-> history_check_frames[1] - history_check_frames[i]]
\* deque(maxlen=history_check_frames[0])
HistoryMaxLen == history_check_frames[1]
past_future_len == Len(past_times) + Len(nn_future_times)

\* deque.append on a deque without maxlen: nothing is ever dropped
DequeAppendUnbounded(q, x) == q \o << x >>

\* deque.append on a deque with maxlen: the oldest sample (index 0) is
\* dropped when the deque is full
DequeAppend(q, x) ==
  IF Len(q) >= HistoryMaxLen THEN SubSeq(q, 2, Len(q)) \o << x >> ELSE q \o << x >>

(***************************************************************************)
(* update_model_v2                                                         *)
(***************************************************************************)
\* self.model_v2 holds a reference to a prediction message or None.  A
\* message is named by an identifier; Msg(id) is the record of the three
\* series the module reads: orientation.x, orientation.y, acceleration.y.
NoModel == "None"

\* a prediction over n horizon steps: a constant roll rate of 1, a constant
\* pitch rate of 0, and a lateral acceleration rising by 1 per step
Prediction(n) ==
  [orientation_x |-> [i \in 1..n |-> One], orientation_y |-> [i \in 1..n |-> Zero],
   acceleration_y |-> [i \in 1..n |-> R(i - 1)]]

\* the predictions supplied: one an entry short of CONTROL_N, one of exactly
\* CONTROL_N entries and a full one
Msg(id) ==
  CASE id = "short" -> Prediction(CONTROL_N - 1)
    [] id = "exact" -> Prediction(CONTROL_N)
    [] id = "rising" -> Prediction(IDX_N)

\* self.model_v2 is not None and len(self.model_v2.orientation.x) >= CONTROL_N
\* validity by presence alone, the length check left out
ModelValidAnyLength(m) == m # NoModel

ModelValid(m) == m # NoModel /\ Len(Msg(m).orientation_x) >= CONTROL_N

(***************************************************************************)
(* update_lateral_jerk(CS, VM, desired_lateral_accel)                      *)
(* self: the fields read; the result holds the fields written and the      *)
(* exception raised, if any ("none" when the call returns).                *)
(***************************************************************************)
\* next((i for i, val in enumerate(T_IDXS) if val > lookahead), 16)
FrictionUpperIdx(lookahead) ==
  LET hits == {i \in 1..Len(T_IDXS) : RLt(lookahead, T_IDXS[i])}
  IN  IF hits = {} THEN FRICTION_UPPER_IDX_DEFAULT
      ELSE (CHOOSE i \in hits : \A j \in hits : i <= j) - 1

\* s[lo:hi] of Python, for 0 <= lo
Slice(s, lo, hi) ==
  LET h == IF hi > Len(s) THEN Len(s) ELSE hi
  IN  IF h <= lo THEN << >> ELSE [k \in 1..(h - lo) |-> s[lo + k]]

\* the disabling condition without the angle-derived measurement flag
JerkDisabledByLookaheadOnly(self, la) == la = Zero

\* line 163: if self.use_steering_angle or self.lookahead_lateral_jerk == 0.0
JerkDisabled(self, la) == self.use_steering_angle \/ la = Zero

update_lateral_jerk(self, vEgo, steeringRateDeg, desired_lateral_accel) ==
  LET jerk_on == self.use_nn \/ use_lateral_jerk
      \* lines 149-152
      actual0 ==
        IF self.use_steering_angle /\ jerk_on
        THEN LET actual_curvature_rate == RNeg(CalcCurvature(Radians(steeringRateDeg), vEgo, Zero))
             IN  RMul(actual_curvature_rate, RMul(vEgo, vEgo))
        ELSE Zero
      zeroed == [exc |-> "none", actual_lateral_jerk |-> actual0,
                 lateral_jerk_setpoint |-> Zero, lateral_jerk_measurement |-> Zero,
                 lookahead_lateral_jerk |-> Zero,
                 lat_accel_friction_factor |-> self.lat_accel_friction_factor]
  IN  IF ~(self.model_valid /\ jerk_on) THEN zeroed
      ELSE
        LET ay == Msg(self.model_v2).acceleration_y
            lookahead == NpInterp(vEgo, friction_look_ahead_bp, friction_look_ahead_v)
            friction_upper_idx == FrictionUpperIdx(lookahead)
        IN  IF BroadcastRaises(NpDiffLen(ay), IDX_N - 1) \/ InterpRaises(T_IDXS, ay)
            THEN [zeroed EXCEPT !.exc = "ValueError"]
            ELSE
              LET predicted_lateral_jerk == get_predicted_lateral_jerk(ay, t_diffs)
                  desired_lateral_jerk ==
                    RDiv(RSub(NpInterp(desired_lat_jerk_time, T_IDXS, ay), desired_lateral_accel),
                         desired_lat_jerk_time)
                  la == get_lookahead_value(
                          Slice(predicted_lateral_jerk, LAT_PLAN_MIN_IDX, friction_upper_idx),
                          desired_lateral_jerk)
                  off == JerkDisabled(self, la)
                  la2 == IF off THEN Zero ELSE la
                  actual2 == IF off THEN Zero ELSE actual0
              IN  [exc |-> "none",
                   actual_lateral_jerk |-> actual2,
                   lateral_jerk_setpoint |-> RMul(lat_jerk_friction_factor, la2),
                   lateral_jerk_measurement |-> RMul(lat_jerk_friction_factor, actual2),
                   lookahead_lateral_jerk |-> la2,
                   lat_accel_friction_factor |->
                     IF off THEN << LAT_ACCEL_FRICTION_FACTOR_OFF >>
                     ELSE self.lat_accel_friction_factor]

(***************************************************************************)
(* update_neural_network(CS, params, pid_log, setpoint, measurement,       *)
(*                       calibrated_pose, desired_lateral_accel,           *)
(*                       lateral_accel_deadzone)                           *)
(* a: the arguments read (vEgo, aEgo, roll, log_error, setpoint,           *)
(* measurement, pose_len, pose_pitch, desired_lateral_accel,               *)
(* lateral_accel_deadzone).  The result holds the exception raised, the    *)
(* returned feedforward, pid_log.error after the call, the fields written  *)
(* and the locals the call computed before it returned or raised.          *)
(***************************************************************************)
\* if not self.use_nn or self.model_valid: return 0.0, pid_log
ZeroPath(self) == ~self.use_nn \/ self.model_valid

\* the offset itself, without the clamp to the newest sample
HistoryIndexUnclamped(len, i) == i

\* min(len(deque) - 1, i), a 0-based index
HistoryIndex(len, i) == IF len - 1 < i THEN len - 1 ELSE i

\* [deque[min(len(deque) - 1, i)] for i in self.history_frame_offsets]
HistoryIndices(q) ==
  [k \in 1..Len(history_frame_offsets) |-> HistoryIndex(Len(q), history_frame_offsets[k])]
\* deque[i]: IndexError unless -len <= i < len; a negative i counts from the end
DequeIndexRaises(q, i) == i >= Len(q) \/ i < -Len(q)
DequeRead(q, i) == q[(IF i < 0 THEN Len(q) + i ELSE i) + 1]
HistoryReadRaises(q) ==
  \E k \in 1..Len(history_frame_offsets) : DequeIndexRaises(q, HistoryIndices(q)[k])
HistoryReads(q) == [k \in 1..Len(history_frame_offsets) |-> DequeRead(q, HistoryIndices(q)[k])]

\* [x] * n
Repeat(x, n) == [i \in 1..n |-> x]

\* return 0.0, pid_log, but only after the appends of lines 181-182
ReturnZeroAfterAppend(self, a) ==
  [exc |-> "none", engine |-> FALSE, ff |-> Zero, log_error |-> a.log_error,
   pitch |-> self.pitch, roll_deque |-> self.roll_deque \o << a.roll >>,
   lateral_accel_desired_deque |->
     self.lateral_accel_desired_deque \o << a.desired_lateral_accel >>,
   roll |-> Zero, pitch_bound |-> FALSE,
   roll_idx |-> << >>, past_rolls |-> << >>,
   lad_idx |-> << >>, past_lateral_accels_desired |-> << >>,
   nn_inputs |-> << >>]

\* return 0.0, pid_log: nothing is written
ReturnZero(self, a) ==
  [exc |-> "none", engine |-> FALSE, ff |-> Zero, log_error |-> a.log_error,
   pitch |-> self.pitch, roll_deque |-> self.roll_deque,
   lateral_accel_desired_deque |-> self.lateral_accel_desired_deque,
   roll |-> Zero, pitch_bound |-> FALSE,
   roll_idx |-> << >>, past_rolls |-> << >>,
   lad_idx |-> << >>, past_lateral_accels_desired |-> << >>,
   nn_inputs |-> << >>]

update_neural_network(self, a) ==
  LET none == ReturnZero(self, a)
  IN  IF ZeroPath(self) THEN none
      ELSE
        LET \* lines 177-182
            pose_ok == a.pose_len > 1
            pitch == IF pose_ok THEN FirstOrderFilterUpdate(self.pitch, a.pose_pitch)
                     ELSE self.pitch
            roll == IF pose_ok THEN roll_pitch_adjust(a.roll, pitch) ELSE a.roll
            rd == DequeAppend(self.roll_deque, roll)
            ld == DequeAppend(self.lateral_accel_desired_deque, a.desired_lateral_accel)
            \* lines 186-187
            adjusted_future_times ==
              [i \in 1..Len(nn_future_times) |->
                 LET t == nn_future_times[i]
                 IN  RAdd(t, RMul(RMul(Norm(1, 2), a.aEgo), RDiv(t, RMax(a.vEgo, One))))]
            appended == [none EXCEPT !.engine = TRUE, !.pitch = pitch, !.roll_deque = rd,
                                     !.lateral_accel_desired_deque = ld, !.roll = roll,
                                     !.pitch_bound = pose_ok,
                                     !.roll_idx = HistoryIndices(rd)]
            ran == [appended EXCEPT !.past_rolls = HistoryReads(rd)]
            \* lines 188-190: the first element of future_rolls already reads
            \* self.model_v2.orientation.x, interpolates both series and then
            \* loads the local pitch, which is bound only under pose_ok
            exc188 ==
              IF self.model_v2 = NoModel THEN "AttributeError"
              ELSE IF InterpRaises(T_IDXS, Msg(self.model_v2).orientation_x) THEN "ValueError"
              ELSE IF InterpRaises(T_IDXS, Msg(self.model_v2).orientation_y) THEN "ValueError"
              ELSE IF ~pose_ok THEN "UnboundLocalError"
              ELSE "none"
        IN  IF HistoryReadRaises(rd) THEN [appended EXCEPT !.exc = "IndexError"]
            ELSE IF exc188 # "none" THEN [ran EXCEPT !.exc = exc188]
            ELSE
              LET m == Msg(self.model_v2)
                  future_rolls ==
                    [i \in 1..Len(adjusted_future_times) |->
                       roll_pitch_adjust(
                         RAdd(NpInterp(adjusted_future_times[i], T_IDXS, m.orientation_x), roll),
                         RAdd(NpInterp(adjusted_future_times[i], T_IDXS, m.orientation_y), pitch))]
                  \* lines 191-192
                  read191 == [ran EXCEPT !.lad_idx = HistoryIndices(ld)]
                  ran191 == [read191 EXCEPT !.past_lateral_accels_desired = HistoryReads(ld)]
                  T_N == SubSeq(T_IDXS, 1, CONTROL_N)
              IN  IF HistoryReadRaises(ld) THEN [read191 EXCEPT !.exc = "IndexError"]
                  \* lines 193-194
                  ELSE IF InterpRaises(T_N, m.acceleration_y)
                  THEN [ran191 EXCEPT !.exc = "ValueError"]
                  ELSE
                    LET past_rolls == ran191.past_rolls
                        past_lateral_accels_desired == ran191.past_lateral_accels_desired
                        future_planned_lateral_accels ==
                          [i \in 1..Len(adjusted_future_times) |->
                             NpInterp(adjusted_future_times[i], T_N, m.acceleration_y)]
                        \* lines 197-206
                        nnff_setpoint_input ==
                          << a.vEgo, a.setpoint, self.lateral_jerk_setpoint, roll >>
                          \o Repeat(a.setpoint, past_future_len) \o past_rolls \o future_rolls
                        nnff_measurement_input ==
                          << a.vEgo, a.measurement, self.lateral_jerk_measurement, roll >>
                          \o Repeat(a.measurement, past_future_len) \o past_rolls \o future_rolls
                        torque_from_setpoint == TorqueFromNN(nnff_setpoint_input)
                        torque_from_measurement == TorqueFromNN(nnff_measurement_input)
                        log_error0 == RSub(torque_from_setpoint, torque_from_measurement)
                        \* lines 209-214
                        error == RSub(a.setpoint, a.measurement)
                        friction_input ==
                          RAdd(RMul(self.lat_accel_friction_factor[1], error),
                               RMul(lat_jerk_friction_factor, self.lookahead_lateral_jerk))
                        nn_input ==
                          << a.vEgo, a.desired_lateral_accel, friction_input, roll >>
                          \o past_lateral_accels_desired \o future_planned_lateral_accels
                          \o past_rolls \o future_rolls
                        ff == TorqueFromNN(nn_input)
                        \* lines 217-221
                        log_error1 ==
                          IF self.nn_friction_override
                          THEN RAdd(log_error0,
                                    TorqueFromLateralAccel(a.vEgo, a.aEgo, friction_input,
                                                           a.lateral_accel_deadzone))
                          ELSE log_error0
                    IN  [ran191 EXCEPT !.ff = ff, !.log_error = log_error1,
                           !.nn_inputs = << nnff_setpoint_input, nnff_measurement_input, nn_input >>]

(***************************************************************************)
(* update_stock_lateral_jerk(error)                                        *)
(***************************************************************************)
\* lat_accel_friction_factor and lat_jerk_friction_factor are attributes
\* only of a module constructed with use_nn or use_lateral_jerk
update_stock_lateral_jerk(self, error) ==
  IF self.lat_accel_friction_factor = << >> THEN [exc |-> "AttributeError", ret |-> Zero]
  ELSE LET accel_error == RMul(self.lat_accel_friction_factor[1], error)
           jerk_error == RMul(lat_jerk_friction_factor, self.actual_lateral_jerk)
       IN  [exc |-> "none", ret |-> RAdd(accel_error, jerk_error)]

(***************************************************************************)
(* Inputs                                                                  *)
(***************************************************************************)
ModelInputs == {NoModel, "short", "exact", "rising"}

\* CS: << vEgo, aEgo, steeringRateDeg >>
CarStates == {<< R(5), Zero, Zero >>, << R(20), One, R(10) >>}
DesiredVals == {Zero, R(7)}
LogErrorVals == {Zero, R(3)}
\* << setpoint, measurement >>
SetpointMeasurementVals == {<< R(2), R(2) >>, << R(2), One >>}
DeadzoneVals == {Zero}
ErrorVals == {Zero, One}
\* len(calibrated_pose.orientation) and its pitch sample
PoseLenVals == {1, 3}
PosePitchVals == {Zero, R(51)}

\* The road samples repeat with this period; it exceeds the history length,
\* so the samples held in a history buffer are pairwise distinct.
RoadPeriod == 32
RollOf(f) == R(f + 1)
DesiredOf(f) == R(100 + f)

(***************************************************************************)
(* State                                                                   *)
(***************************************************************************)
VARIABLES
  \* fixed at construction
  use_nn, use_steering_angle, nn_friction_override,
  \* the fields the entry points write
  model_v2, model_valid,
  actual_lateral_jerk, lateral_jerk_setpoint, lateral_jerk_measurement,
  lookahead_lateral_jerk,
  lat_accel_friction_factor,   \* << >> while the attribute is not set
  pitch,                       \* self.pitch.x
  roll_deque, lateral_accel_desired_deque, error_deque,
  \* the environment: the calibrated pose of this drive and the index of
  \* the next road sample
  pose_len, pose_pitch, frame,
  \* the last entry-point call and what it returned or raised
  call,
  \* one application of get_lookahead_value: its arguments and its result
  selector

config == << use_nn, use_steering_angle, nn_friction_override >>
env == << pose_len, pose_pitch >>
jerk == << actual_lateral_jerk, lateral_jerk_setpoint, lateral_jerk_measurement,
           lookahead_lateral_jerk >>
history == << roll_deque, lateral_accel_desired_deque, error_deque >>
program == << config, model_v2, model_valid, jerk, lat_accel_friction_factor, pitch,
              history, env, frame, call >>
vars == << program, selector >>

Self ==
  [use_nn |-> use_nn, use_steering_angle |-> use_steering_angle,
   nn_friction_override |-> nn_friction_override,
   model_v2 |-> model_v2, model_valid |-> model_valid,
   actual_lateral_jerk |-> actual_lateral_jerk,
   lateral_jerk_setpoint |-> lateral_jerk_setpoint,
   lateral_jerk_measurement |-> lateral_jerk_measurement,
   lookahead_lateral_jerk |-> lookahead_lateral_jerk,
   lat_accel_friction_factor |-> lat_accel_friction_factor,
   pitch |-> pitch, roll_deque |-> roll_deque,
   lateral_accel_desired_deque |-> lateral_accel_desired_deque]

NoCall ==
  [op |-> "__init__", exc |-> "none", engine |-> FALSE, ff |-> Zero, log_error |-> Zero,
   roll |-> Zero, pitch_bound |-> FALSE, roll_idx |-> << >>, past_rolls |-> << >>,
   lad_idx |-> << >>, past_lateral_accels_desired |-> << >>, nn_inputs |-> << >>,
   ret |-> Zero,
   \* pid_log.error as passed to update_neural_network
   pid_log_in |-> Zero,
   \* model_v2 as passed to update_model_v2
   model_v2_in |-> NoModel]

\* __init__: the attributes of lines 105-136 exist only under use_nn (or
\* use_lateral_jerk); nn_friction_override is read from the car interface
\* only under use_nn
NoSelection == [future_vals |-> << >>, current_val |-> Zero, out |-> Zero, applied |-> FALSE]

Constructed ==
  /\ use_nn \in BOOLEAN
  /\ use_steering_angle \in BOOLEAN
  /\ nn_friction_override \in (IF use_nn THEN BOOLEAN ELSE {FALSE})
  /\ model_v2 = NoModel
  /\ model_valid = FALSE
  /\ actual_lateral_jerk = Zero
  /\ lateral_jerk_setpoint = Zero
  /\ lateral_jerk_measurement = Zero
  /\ lookahead_lateral_jerk = Zero
  /\ lat_accel_friction_factor =
       (IF use_nn \/ use_lateral_jerk THEN << LAT_ACCEL_FRICTION_FACTOR_INIT >> ELSE << >>)
  /\ pitch = Zero
  /\ roll_deque = << >>
  /\ lateral_accel_desired_deque = << >>
  /\ error_deque = << >>
  /\ pose_len \in PoseLenVals
  /\ pose_pitch \in (IF pose_len > 1 THEN PosePitchVals ELSE {Zero})
  /\ frame = 0
  /\ call = NoCall

Init == Constructed /\ selector = NoSelection

(***************************************************************************)
(* Entry points                                                            *)
(***************************************************************************)
UpdateModelV2 ==
  \E m \in ModelInputs :
    /\ model_v2' = m
    /\ model_valid' = ModelValid(m)
    /\ call' = [NoCall EXCEPT !.op = "update_model_v2", !.model_v2_in = m]
    /\ UNCHANGED << config, jerk, lat_accel_friction_factor, pitch, history, env, frame,
                    selector >>

UpdateLateralJerk ==
  \E CS \in CarStates, desired \in DesiredVals :
    \E r \in {update_lateral_jerk(Self, CS[1], CS[3], desired)} :
        /\ actual_lateral_jerk' = r.actual_lateral_jerk
        /\ lateral_jerk_setpoint' = r.lateral_jerk_setpoint
        /\ lateral_jerk_measurement' = r.lateral_jerk_measurement
        /\ lookahead_lateral_jerk' = r.lookahead_lateral_jerk
        /\ lat_accel_friction_factor' = r.lat_accel_friction_factor
        /\ call' = [NoCall EXCEPT !.op = "update_lateral_jerk", !.exc = r.exc]
        /\ UNCHANGED << config, model_v2, model_valid, pitch, history, env, frame,
                        selector >>

NNArgs(CS, log_error, sm, deadzone, roll, desired, plen, ppitch) ==
  [vEgo |-> CS[1], aEgo |-> CS[2], roll |-> roll, log_error |-> log_error,
   setpoint |-> sm[1], measurement |-> sm[2], pose_len |-> plen, pose_pitch |-> ppitch,
   desired_lateral_accel |-> desired, lateral_accel_deadzone |-> deadzone]

UpdateNeuralNetwork ==
  \E CS \in CarStates, log_error \in LogErrorVals,
     sm \in SetpointMeasurementVals, deadzone \in DeadzoneVals :
    \E r \in {update_neural_network(Self,
                 NNArgs(CS, log_error, sm, deadzone, RollOf(frame), DesiredOf(frame),
                        pose_len, pose_pitch))} :
        /\ pitch' = r.pitch
        /\ roll_deque' = r.roll_deque
        /\ lateral_accel_desired_deque' = r.lateral_accel_desired_deque
        /\ frame' = IF r.engine THEN (frame + 1) % RoadPeriod ELSE frame
        /\ call' = [NoCall EXCEPT !.op = "update_neural_network", !.exc = r.exc,
                      !.engine = r.engine, !.ff = r.ff, !.log_error = r.log_error,
                      !.roll = r.roll, !.pitch_bound = r.pitch_bound,
                      !.roll_idx = r.roll_idx, !.past_rolls = r.past_rolls,
                      !.lad_idx = r.lad_idx,
                      !.past_lateral_accels_desired = r.past_lateral_accels_desired,
                      !.nn_inputs = r.nn_inputs, !.pid_log_in = log_error]
        /\ UNCHANGED << config, model_v2, model_valid, jerk, lat_accel_friction_factor,
                        error_deque, env, selector >>

UpdateStockLateralJerk ==
  \E error \in ErrorVals :
    \E r \in {update_stock_lateral_jerk(Self, error)} :
        /\ call' = [NoCall EXCEPT !.op = "update_stock_lateral_jerk", !.exc = r.exc,
                      !.ret = r.ret]
        /\ UNCHANGED << config, model_v2, model_valid, jerk, lat_accel_friction_factor,
                        pitch, history, env, frame, selector >>

Next ==
  \/ UpdateModelV2
  \/ UpdateLateralJerk
  \/ UpdateNeuralNetwork
  \/ UpdateStockLateralJerk

Spec == Init /\ [][Next]_vars

(***************************************************************************)
(* get_lookahead_value on its own: every sequence of at most MaxFuture     *)
(* future values and every current value, drawn from SignedVals            *)
(***************************************************************************)
MaxFuture == 3
SignedVals == {R(-2), R(-1), Zero, R(1), R(2)}
FutureSeqs == UNION {[1..n -> SignedVals] : n \in 0..MaxFuture}

\* a module as constructed, and the arguments of one application
LookaheadInit ==
  /\ Constructed
  /\ use_nn /\ ~use_steering_angle /\ ~nn_friction_override /\ pose_len = 1
  /\ selector \in [future_vals : FutureSeqs, current_val : SignedVals, out : {Zero},
                    applied : {FALSE}]

ApplyLookahead ==
  /\ ~selector.applied
  /\ selector' = [selector EXCEPT
                    !.out = get_lookahead_value(selector.future_vals, selector.current_val),
                    !.applied = TRUE]
  /\ UNCHANGED program

LookaheadNext == ApplyLookahead

SpecLookahead == LookaheadInit /\ [][LookaheadNext]_vars

(***************************************************************************)
(* Properties                                                              *)
(***************************************************************************)
NNCalled == call.op = "update_neural_network"
JerkCalled == call.op = "update_lateral_jerk"

\* C1: whenever the prediction is marked invalid, update_neural_network
\* returns a feedforward of exactly 0.0, whatever the mode flags are.
C1_ZeroFeedforwardWhenInvalid ==
  (NNCalled /\ ~model_valid) => (call.exc = "none" /\ call.ff = Zero)

\* C2: the feedforward engine (the appends to the history buffers and all
\* that follows them) runs in exactly the update_neural_network calls made
\* with NN mode enabled and a valid prediction.
C2_EngineRunsWhenValid ==
  NNCalled => (call.engine <=> (use_nn /\ model_valid))

\* C3: with an invalid prediction (absent, too short, or never supplied),
\* update_lateral_jerk and update_neural_network complete without raising.
C3_InvalidNeverRaises ==
  ((NNCalled \/ JerkCalled) /\ ~model_valid) => call.exc = "none"

\* C4: after an update_lateral_jerk call made while the prediction is
\* invalid, the actual jerk, the lookahead jerk, the jerk setpoint and the
\* jerk measurement are all zero.
C4_JerkZeroWhenInvalid ==
  (JerkCalled /\ ~model_valid) =>
    /\ actual_lateral_jerk = Zero
    /\ lookahead_lateral_jerk = Zero
    /\ lateral_jerk_setpoint = Zero
    /\ lateral_jerk_measurement = Zero

\* the engine of update_neural_network ran in the last call
EngineRan == NNCalled /\ call.engine

\* the 1-based positions of history_frame_offsets that are deeper than a
\* buffer of n samples
Deeper(n) == {k \in 1..Len(history_frame_offsets) : history_frame_offsets[k] > n - 1}

\* C5: a history lookup whose offset is deeper than the number of samples
\* recorded so far uses the oldest sample of the buffer, in past_rolls and
\* in past_lateral_accels_desired, at every fill level.
C5_DeepLookupUsesOldest ==
  EngineRan =>
    /\ \A k \in Deeper(Len(roll_deque)) : call.past_rolls[k] = roll_deque[1]
    /\ call.past_lateral_accels_desired # << >> =>
         \A k \in Deeper(Len(lateral_accel_desired_deque)) :
           call.past_lateral_accels_desired[k] = lateral_accel_desired_deque[1]

\* C6: the friction factor is forced to 1.0 only for the cycle that
\* triggers it: after an update_lateral_jerk call with angle-derived
\* measurement off, a valid prediction and a non-zero lookahead jerk, the
\* factor is the value configured at construction.
C6_FactorForcedForOneCycle ==
  (JerkCalled /\ use_nn /\ ~use_steering_angle /\ model_valid
     /\ lookahead_lateral_jerk # Zero) =>
    lat_accel_friction_factor = << LAT_ACCEL_FRICTION_FACTOR_INIT >>

\* the last n road samples of desired lateral acceleration, oldest first
RecentDesired(n) == [k \in 1..n |-> DesiredOf((frame + RoadPeriod - n + k - 1) % RoadPeriod)]

\* C7: every history buffer holds at most its capacity of 30 samples, and
\* an append to a full buffer evicts the oldest one: a buffer holds the
\* most recent samples in arrival order.  (A roll sample is stored after the
\* pitch adjustment, which on these pitch angles changes at most its sign.)
C7_BuffersBounded ==
  /\ HistoryMaxLen = 30
  /\ Len(roll_deque) <= HistoryMaxLen
  /\ Len(lateral_accel_desired_deque) <= HistoryMaxLen
  /\ Len(error_deque) <= HistoryMaxLen
  /\ Len(roll_deque) = Len(lateral_accel_desired_deque)
  /\ lateral_accel_desired_deque = RecentDesired(Len(lateral_accel_desired_deque))
  /\ \A k \in 1..Len(roll_deque) :
       RAbs(roll_deque[k]) = RAbs(RollOf((frame + RoadPeriod - Len(roll_deque) + k - 1) % RoadPeriod))

\* C7 happens: a full buffer has taken a further sample and dropped sample 0
C7_Evicted ==
  /\ EngineRan
  /\ Len(lateral_accel_desired_deque) = HistoryMaxLen
  /\ lateral_accel_desired_deque[1] = DesiredOf(1)
  /\ lateral_accel_desired_deque[HistoryMaxLen] = DesiredOf(HistoryMaxLen)

\* C8: every history read of update_neural_network uses an index within
\* [0, len - 1] of the buffer it reads, from the first executing cycle on,
\* so that no read raises.
C8_ReadsInBounds ==
  /\ call.exc # "IndexError"
  /\ EngineRan =>
       /\ Len(call.roll_idx) = Len(history_frame_offsets)
       /\ \A k \in 1..Len(call.roll_idx) :
            0 <= call.roll_idx[k] /\ call.roll_idx[k] <= Len(roll_deque) - 1
  /\ \A q \in {roll_deque, lateral_accel_desired_deque} :
       q # << >> =>
         \A k \in 1..Len(history_frame_offsets) :
           HistoryIndices(q)[k] \in 0..(Len(q) - 1)

\* C8 happens: the first executing cycle read its single sample three times
C8_FirstCycleRead ==
  EngineRan /\ Len(roll_deque) = 1 /\ call.roll_idx = << 0, 0, 0 >>

\* C9: a cycle in which the engine executes without a pitch sample
\* (calibrated_pose.orientation of at most one element) completes: the pitch
\* filter is not updated, the roll is used unadjusted, a feedforward returns.
C9_NoPitchCompletes ==
  (EngineRan /\ pose_len <= 1) =>
    (call.exc = "none" /\ pitch = Zero /\ call.roll = roll_deque[Len(roll_deque)])

\* the arguments a cycle may pass in the current state
CycleArgs ==
  {NNArgs(CS, log_error, sm, deadzone, RollOf(frame), DesiredOf(frame), pose_len, pose_pitch) :
     CS \in CarStates, log_error \in LogErrorVals, sm \in SetpointMeasurementVals,
     deadzone \in DeadzoneVals}

\* self after update_neural_network returned or raised r
After(self, r) ==
  [self EXCEPT !.pitch = r.pitch, !.roll_deque = r.roll_deque,
               !.lateral_accel_desired_deque = r.lateral_accel_desired_deque]

\* C10: two update_neural_network calls in a row with identical arguments
\* return the same feedforward and the same logged error, from every
\* reachable state.
C10_Idempotent ==
  \A a \in CycleArgs :
    LET r1 == update_neural_network(Self, a)
        r2 == update_neural_network(After(Self, r1), a)
    IN  /\ r1.exc = "none" /\ r2.exc = "none"
        /\ r1.ff = r2.ff
        /\ r1.log_error = r2.log_error

\* a cycle in which the torque-response function is to be invoked: the engine
\* executed, or NN mode is enabled and the prediction is valid
EngineCycle == NNCalled /\ (call.engine \/ (use_nn /\ model_valid))

\* C11: in every cycle the three feature vectors passed to the
\* torque-response function (setpoint, measurement, feedforward) have the
\* same length 4 + 2 * (past count + future count) = 18.
C11_FeatureVectorsLength18 ==
  EngineCycle =>
    /\ Len(call.nn_inputs) = 3
    /\ \A i \in 1..Len(call.nn_inputs) :
         Len(call.nn_inputs[i]) = 4 + 2 * (Len(past_times) + Len(future_times))
    /\ 4 + 2 * (Len(past_times) + Len(future_times)) = 18

\* the sign of a value as an integer
Sgn(x) == IF x[1] > 0 THEN 1 ELSE IF x[1] < 0 THEN -1 ELSE 0

\* C12: get_lookahead_value(future_vals, current_val) is current_val when
\* future_vals is empty; 0.0 when some future value has a sign other than
\* that of current_val (a future zero with a non-zero current included);
\* otherwise the value of least absolute value among future_vals and
\* current_val.
C12_LookaheadValue ==
  selector.applied =>
    LET fv == selector.future_vals
        cv == selector.current_val
        all == {fv[i] : i \in 1..Len(fv)} \cup {cv}
    IN  IF fv = << >> THEN selector.out = cv
        ELSE IF \E i \in 1..Len(fv) : Sgn(fv[i]) # Sgn(cv) THEN selector.out = Zero
        ELSE /\ selector.out \in all
             /\ \A e \in all : IAbs(selector.out[1]) * e[2] <= IAbs(e[1]) * selector.out[2]

\* C12 happens: a future zero against a positive current value gave 0.0
C12_FutureZero ==
  /\ selector.applied
  /\ selector.future_vals = << R(1), Zero >>
  /\ selector.current_val = R(2)
  /\ selector.out = Zero

\* predicted_lateral_jerk[LAT_PLAN_MIN_IDX:friction_upper_idx] at speed vEgo
FutureJerks(vEgo) ==
  Slice(get_predicted_lateral_jerk(Msg(model_v2).acceleration_y, t_diffs), LAT_PLAN_MIN_IDX,
        FrictionUpperIdx(NpInterp(vEgo, friction_look_ahead_bp, friction_look_ahead_v)))

\* the fields of self after update_lateral_jerk returned r
AfterJerk(self, r) ==
  [self EXCEPT !.actual_lateral_jerk = r.actual_lateral_jerk,
               !.lateral_jerk_setpoint = r.lateral_jerk_setpoint,
               !.lateral_jerk_measurement = r.lateral_jerk_measurement,
               !.lookahead_lateral_jerk = r.lookahead_lateral_jerk,
               !.lat_accel_friction_factor = r.lat_accel_friction_factor]

\* C13: in a module with NN disabled and angle measurement disabled that
\* holds a valid prediction of strictly increasing lateral acceleration,
\* update_lateral_jerk with a desired lateral acceleration of 0 leaves a
\* positive lookahead jerk, the least of the future predicted jerks, and
\* update_neural_network then returns a feedforward of zero.
C13_JerkOnlyScenario ==
  (~use_nn /\ ~use_steering_angle /\ model_valid) =>
    \A CS \in CarStates :
      \A r \in {update_lateral_jerk(Self, CS[1], CS[3], Zero)} :
        /\ r.exc = "none"
        /\ RLt(Zero, r.lookahead_lateral_jerk)
        /\ \E k \in 1..Len(FutureJerks(CS[1])) : r.lookahead_lateral_jerk = FutureJerks(CS[1])[k]
        /\ \A k \in 1..Len(FutureJerks(CS[1])) : RLe(r.lookahead_lateral_jerk, FutureJerks(CS[1])[k])
        /\ \A a \in CycleArgs :
             \A n \in {update_neural_network(AfterJerk(Self, r), a)} :
               n.exc = "none" /\ n.ff = Zero

StockCalled == call.op = "update_stock_lateral_jerk"

\* C14: update_stock_lateral_jerk(error) returns lat_accel_friction_factor *
\* error + lat_jerk_friction_factor * actual_lateral_jerk for every error
\* and in every constructed mode, a module with NN disabled included.
C14_StockFrictionReturns ==
  StockCalled =>
    /\ call.exc = "none"
    /\ lat_accel_friction_factor # << >>
    /\ \E error \in ErrorVals :
         call.ret = RAdd(RMul(lat_accel_friction_factor[1], error),
                         RMul(<< 2, 5 >>, actual_lateral_jerk))

\* C15: an update_neural_network call that takes the zero-feedforward path
\* changes nothing: the history buffers, the pitch filter, the jerk state
\* and the error of the passed log are after the call what they were before.
C15_ZeroPathChangesNothing ==
  [][(call'.op = "update_neural_network" /\ ~call'.engine) =>
       /\ call'.exc = "none"
       /\ call'.ff = Zero
       /\ call'.log_error = call'.pid_log_in
       /\ UNCHANGED << history, pitch, jerk, lat_accel_friction_factor, model_v2, model_valid >>
    ]_vars

\* C15 happens: a zero-feedforward call in a module whose buffers, jerk
\* state and passed log all hold something
C15_ZeroPathTaken ==
  /\ NNCalled /\ ~call.engine
  /\ roll_deque # << >>
  /\ lookahead_lateral_jerk # Zero
  /\ call.pid_log_in = R(3)

\* friction_input as line 210 computes it from the state and the arguments
FrictionInputOf(self, a) ==
  RAdd(RMul(self.lat_accel_friction_factor[1], RSub(a.setpoint, a.measurement)),
       RMul(<< 2, 5 >>, self.lookahead_lateral_jerk))

\* self with the friction-override capability flag set to b
WithOverride(self, b) == [self EXCEPT !.nn_friction_override = b]

\* C16: the friction override affects only the logged error: from the same
\* state and with the same arguments, whenever update_neural_network returns
\* under both settings of nn_friction_override, the feedforward is the same
\* and the logged error with the override is the logged error without it
\* plus the friction-compensation torque computed from friction_input.
C16_OverrideOnlyLoggedError ==
  use_nn =>
    \A a \in CycleArgs :
      \A on \in {update_neural_network(WithOverride(Self, TRUE), a)} :
        \A off \in {update_neural_network(WithOverride(Self, FALSE), a)} :
          (on.exc = "none" /\ off.exc = "none") =>
            /\ on.ff = off.ff
            /\ on.log_error =
                 RAdd(off.log_error,
                      TorqueFromLateralAccel(a.vEgo, a.aEgo, FrictionInputOf(Self, a),
                                             a.lateral_accel_deadzone))

C18_ValidityFollowsLatestPrediction ==
  /\ model_valid <=>
       (model_v2 # "None" /\ Len(Msg(model_v2).orientation_x) >= CONTROL_N)
  /\ call.op = "update_model_v2" => model_v2 = call.model_v2_in
  /\ call.op = "__init__" => (model_v2 = "None" /\ ~model_valid)

\* C18 happens: a short prediction has replaced a valid one (the lookahead
\* jerk computed from the valid one is still stored) and validity is gone
C18_ShortReplacesValid ==
  /\ call.op = "update_model_v2" /\ call.model_v2_in = "short"
  /\ ~model_valid
  /\ lookahead_lateral_jerk # Zero

\* C19: the jerk measurement is zero after every update_lateral_jerk call,
\* in every mode and for every input, whether the call completed or raised.
C19_JerkMeasurementZero ==
  JerkCalled => lateral_jerk_measurement = Zero

\* C19 happens: a completed call with angle-derived measurement, NN active
\* and a valid prediction, the one configuration in which the actual jerk
\* is computed and the measurement is derived from it
C19_AngleDerivedValid ==
  /\ JerkCalled /\ call.exc = "none"
  /\ use_nn /\ use_steering_angle /\ model_valid
  /\ lateral_jerk_measurement = Zero
=============================================================================
